---- MODULE Spec2Model ----
(***************************************************************************)
(* Gestor_facturas: utils/mod_xml.py (CFDI extractor, batch driver,        *)
(* summary formatter) and utils/mod_rutas.py (directory registry).         *)
(*                                                                         *)
(* Conventions.  A Python str is a sequence of one-character strings.      *)
(* An Optional value is a sequence of length 0 (None) or 1 (the value).    *)
(* A float is the exact decimal [neg, mant, exp] = (-1)^neg * mant *       *)
(* 10^exp with mant not divisible by 10 (0.0 is mant = 0, exp = 0); the    *)
(* numeric inputs have at most nine significant digits, where decimal and  *)
(* binary64 equality coincide.                                             *)
(***************************************************************************)
EXTENDS Integers, Sequences, FiniteSets, TLC

VARIABLES
    archivo,        \* SpecXml: the file handed to parsear_archivo
    ediciones,      \* SpecXml: number of edits applied to the file so far
    fase,           \* SpecXml: "editando" | "parseado" | "resumido"
    resultado,      \* SpecXml: what parsear_archivo returned (Optional CFDIData)
    mensajes,       \* SpecXml: what that call printed
    excepcion,      \* SpecXml: the exception that call let through ("" for none)
    resumen,        \* SpecXml: what obtener_resumen_cfdi returned
    namespaces,     \* the table CFDI_NAMESPACES every parser instance refers to
    historial,      \* SpecInst: the calls made so far, <<[via, archivo, ret]>>
    fecha_str,      \* SpecFecha: argument of _convertir_fecha
    intentos,       \* SpecFecha: the formats tried so far, in order
    fecha_pc,       \* SpecFecha: "inicio" | "bucle" | "fin"
    fecha_res,      \* SpecFecha: the value returned
    fecha_diag,     \* SpecFecha: the diagnostic lines printed
    fs,             \* SpecDirs: kind of every modelled path
    escribible,     \* SpecDirs: the directories in which entries may be created
    antes,          \* SpecDirs: [fs, w] before the last init_directorios call
    init_res,       \* SpecDirs: "" | "ok" | the exception the last call raised
    pendientes,     \* SpecLote: kind of DIR_PENDIENTES
    entradas,       \* SpecLote: the entries of DIR_PENDIENTES, name -> file
    listado,        \* SpecLote: the order glob yields the matching files in
    pos,            \* SpecLote: number of listed files already handled
    cfdis,          \* SpecLote: the list being built
    lote_pc         \* SpecLote: "reposo" | "bucle" | "fin" | "excepcion"

vars == <<archivo, ediciones, fase, resultado, mensajes, excepcion, resumen, namespaces,
          historial, fecha_str, intentos, fecha_pc, fecha_res, fecha_diag,
          fs, escribible, antes, init_res,
          pendientes, entradas, listado, pos, cfdis, lote_pc>>

----
\* Optional values

None == <<>>

Some(x) == <<x>>

EsNone(o) == Len(o) = 0

Val(o) == o[1]

\* Python truthiness of an Optional[str]: None and "" are falsy.
Truthy(o) == Len(o) = 1 /\ Len(o[1]) > 0

\* a or b, on Optional[str]
Or(a, b) == IF Truthy(a) THEN a ELSE b

----
\* Characters and decimal numerals

Digitos == {"0", "1", "2", "3", "4", "5", "6", "7", "8", "9"}

ValorDigito(c) ==
    CASE c = "0" -> 0 [] c = "1" -> 1 [] c = "2" -> 2 [] c = "3" -> 3
      [] c = "4" -> 4 [] c = "5" -> 5 [] c = "6" -> 6 [] c = "7" -> 7
      [] c = "8" -> 8 [] c = "9" -> 9

CifraDe(n) == <<"0", "1", "2", "3", "4", "5", "6", "7", "8", "9">>[n + 1]

\* the value of the first k digits of s
RECURSIVE ValorNatHasta(_, _)
ValorNatHasta(s, k) ==
    IF k = 0 THEN 0 ELSE 10 * ValorNatHasta(s, k - 1) + ValorDigito(s[k])

ValorNat(s) == ValorNatHasta(s, Len(s))

RECURSIVE CifrasDe(_)
CifrasDe(n) ==
    IF n < 10 THEN <<CifraDe(n)>>
    ELSE CifrasDe(n \div 10) \o <<CifraDe(n % 10)>>

RECURSIVE Pot10(_)
Pot10(k) == IF k = 0 THEN 1 ELSE 10 * Pot10(k - 1)

\* the only element of a singleton set; Uno({F(x) : x \in {e}}) is F(e)
\* with e evaluated once
Uno(S) == CHOOSE x \in S : TRUE

\* str.lstrip / str.rstrip of blanks
LStrip(s) ==
    LET ks == {k \in 1..Len(s) : s[k] # " "}
    IN  IF ks = {} THEN <<>>
        ELSE SubSeq(s, CHOOSE k \in ks : \A j \in ks : k <= j, Len(s))

RStrip(s) ==
    LET ks == {k \in 1..Len(s) : s[k] # " "}
    IN  IF ks = {} THEN <<>>
        ELSE SubSeq(s, 1, CHOOSE k \in ks : \A j \in ks : k >= j)

\* First position of s holding a character of C, 0 when there is none.
IndexOf(s, C) ==
    IF \E i \in 1..Len(s) : s[i] \in C
    THEN CHOOSE i \in 1..Len(s) : s[i] \in C /\ \A j \in 1..(i - 1) : s[j] \notin C
    ELSE 0

----
\* float(str), over the alphabet 0-9 . + - e E _ , space a b c
\* (no "inf", "nan" or "infinity" can be spelled with it).

\* digitpart ::= digit (["_"] digit)*
EsDigitPart(s) ==
    /\ s # <<>>
    /\ s[1] \in Digitos
    /\ s[Len(s)] \in Digitos
    /\ \A i \in 1..Len(s) : s[i] \in Digitos \cup {"_"}
    /\ \A i \in 1..(Len(s) - 1) : ~(s[i] = "_" /\ s[i + 1] = "_")

SinGuiones(s) == SelectSeq(s, LAMBDA c : c # "_")

RECURSIVE Normal(_, _, _)
Normal(neg, mant, exp) ==
    IF mant = 0 THEN [neg |-> neg, mant |-> 0, exp |-> 0]
    ELSE IF mant % 10 = 0 THEN Normal(neg, mant \div 10, exp + 1)
    ELSE [neg |-> neg, mant |-> mant, exp |-> exp]

\* [error |-> TRUE] is ValueError raised; otherwise val is the float.
float_py(valor) ==
    Uno({
      LET signo == t # <<>> /\ t[1] \in {"+", "-"}
          neg == signo /\ t[1] = "-"
          pe0 == IndexOf(t, {"e", "E"})
          mant == SubSeq(t, IF signo THEN 2 ELSE 1, IF pe0 = 0 THEN Len(t) ELSE pe0 - 1)
          expo == IF pe0 = 0 THEN <<>> ELSE SubSeq(t, pe0 + 1, Len(t))
      IN  Uno({
            LET signoE == ex # <<>> /\ ex[1] \in {"+", "-"}
                expoDig == IF signoE THEN Tail(ex) ELSE ex
                pp == IndexOf(m, {"."})
                ent == IF pp = 0 THEN m ELSE SubSeq(m, 1, pp - 1)
                frac == IF pp = 0 THEN <<>> ELSE SubSeq(m, pp + 1, Len(m))
                okMant == /\ ent = <<>> \/ EsDigitPart(ent)
                          /\ frac = <<>> \/ EsDigitPart(frac)
                          /\ ent # <<>> \/ frac # <<>>
                okExp == pe0 = 0 \/ EsDigitPart(expoDig)
                e == IF pe0 = 0 THEN 0
                     ELSE IF signoE /\ ex[1] = "-"
                     THEN 0 - ValorNat(SinGuiones(expoDig))
                     ELSE ValorNat(SinGuiones(expoDig))
            IN  IF okMant /\ okExp
                THEN [error |-> FALSE,
                      val |-> Normal(neg, ValorNat(SinGuiones(ent \o frac)),
                                     e - Len(SinGuiones(frac)))]
                ELSE [error |-> TRUE, val |-> Normal(FALSE, 0, 0)]
            : m \in {mant}, ex \in {expo}})
      : t \in {RStrip(LStrip(valor))}})

\* bool(x) of a float
FloatTruthy(x) == x.mant # 0

----
\* datetime.strptime(s, fmt).  A format is a sequence of tokens: a directive
\* ("%Y", ...), a blank (compiled to \s+) or a literal character.  The regex
\* is compiled with IGNORECASE and applied with re.match; a match that stops
\* before the end of s raises ValueError ("unconverted data remains").  For
\* the four formats below a match of a prefix that is not a match of the
\* whole string leaves data over, so the matches of the whole string decide.

Directivas == {"%Y", "%m", "%d", "%H", "%M", "%S", "%f"}

LongitudesDirectiva(d) ==
    IF d = "%Y" THEN {4} ELSE IF d = "%f" THEN 1..6 ELSE {1, 2}

\* w is in the language of the directive's regex (_strptime.TimeRE)
AceptaDirectiva(d, w) ==
    LET n == Len(w)
        dig(i) == w[i] \in Digitos
        nz(i) == w[i] \in Digitos \ {"0"}
    IN  CASE d = "%Y" -> n = 4 /\ \A i \in 1..4 : dig(i)
          [] d = "%m" -> \/ n = 2 /\ w[1] = "1" /\ w[2] \in {"0", "1", "2"}
                         \/ n = 2 /\ w[1] = "0" /\ nz(2)
                         \/ n = 1 /\ nz(1)
          [] d = "%d" -> \/ n = 2 /\ w[1] = "3" /\ w[2] \in {"0", "1"}
                         \/ n = 2 /\ w[1] \in {"1", "2"} /\ dig(2)
                         \/ n = 2 /\ w[1] = "0" /\ nz(2)
                         \/ n = 1 /\ nz(1)
                         \/ n = 2 /\ w[1] = " " /\ nz(2)
          [] d = "%H" -> \/ n = 2 /\ w[1] = "2" /\ w[2] \in {"0", "1", "2", "3"}
                         \/ n = 2 /\ w[1] \in {"0", "1"} /\ dig(2)
                         \/ n = 1 /\ dig(1)
          [] d = "%M" -> \/ n = 2 /\ w[1] \in {"0", "1", "2", "3", "4", "5"} /\ dig(2)
                         \/ n = 1 /\ dig(1)
          [] d = "%S" -> \/ n = 2 /\ w[1] = "6" /\ w[2] \in {"0", "1"}
                         \/ n = 2 /\ w[1] \in {"0", "1", "2", "3", "4", "5"} /\ dig(2)
                         \/ n = 1 /\ dig(1)
          [] d = "%f" -> n \in 1..6 /\ \A i \in 1..n : dig(i)

\* literal t of the format against character c of the input, IGNORECASE
IgualSinCaja(c, t) == c = t \/ (t = "T" /\ c = "t")

\* The ways s[i..] matches fmt[j..] up to the end of s: each a sequence of
\* [d |-> directive, w |-> text it matched].
RECURSIVE Casar(_, _, _, _)
Casar(s, i, fmt, j) ==
    IF j > Len(fmt) THEN (IF i = Len(s) + 1 THEN {<<>>} ELSE {})
    ELSE LET t == fmt[j]
         IN  IF t \in Directivas
             THEN UNION {
                    {<<[d |-> t, w |-> SubSeq(s, i, i + n - 1)]>> \o r :
                        r \in Casar(s, i + n, fmt, j + 1)} :
                    n \in {m \in LongitudesDirectiva(t) :
                             /\ i + m - 1 <= Len(s)
                             /\ AceptaDirectiva(t, SubSeq(s, i, i + m - 1))}}
             ELSE IF t = " "
             THEN UNION {Casar(s, i + n, fmt, j + 1) :
                           n \in {m \in 1..(Len(s) - i + 1) :
                                    \A k \in i..(i + m - 1) : s[k] = " "}}
             ELSE IF i <= Len(s) /\ IgualSinCaja(s[i], t)
                  THEN Casar(s, i + 1, fmt, j + 1)
                  ELSE {}

Bisiesto(y) == (y % 4 = 0 /\ y % 100 # 0) \/ y % 400 = 0

DiasDelMes(y, m) ==
    IF m = 2 THEN (IF Bisiesto(y) THEN 29 ELSE 28)
    ELSE IF m \in {4, 6, 9, 11} THEN 30 ELSE 31

\* w padded on the right with zeros to n characters
RellenaCeros(w, n) ==
    [k \in 1..(IF Len(w) >= n THEN Len(w) ELSE n) |->
       IF k <= Len(w) THEN w[k] ELSE "0"]

FechaNula == [year |-> 0, month |-> 0, day |-> 0, hour |-> 0, minute |-> 0,
              second |-> 0, microsecond |-> 0]

\* the datetime of a match a; a directive the format lacks keeps the default
\* of _strptime (1900-01-01 00:00:00)
FechaDe(a) ==
    LET tiene(d) == \E k \in DOMAIN a : a[k].d = d
        texto(d) == a[CHOOSE k \in DOMAIN a : a[k].d = d].w
        num(d, def) == IF tiene(d) THEN ValorNat(LStrip(texto(d))) ELSE def
    IN  [year |-> num("%Y", 1900), month |-> num("%m", 1),
         day |-> num("%d", 1), hour |-> num("%H", 0),
         minute |-> num("%M", 0), second |-> num("%S", 0),
         microsecond |-> IF tiene("%f")
                         THEN ValorNat(RellenaCeros(texto("%f"), 6))
                         ELSE 0]

\* what the regex lets through and datetime(...) rejects: year 0, a day the
\* month does not have, second 60 or 61
FechaValida(dt) ==
    /\ dt.year >= 1
    /\ dt.day <= DiasDelMes(dt.year, dt.month)
    /\ dt.second <= 59

\* [error |-> TRUE] is ValueError raised; otherwise val is the datetime.
strptime(s, fmt) ==
    Uno({IF ms = {} THEN [error |-> TRUE, val |-> FechaNula]
         ELSE Uno({IF FechaValida(dt) THEN [error |-> FALSE, val |-> dt]
                   ELSE [error |-> TRUE, val |-> FechaNula]
                   : dt \in {FechaDe(a) : a \in {Uno(ms)}}})
         : ms \in {Casar(s, 1, fmt, 1)}})

FMT_ISO == <<"%Y", "-", "%m", "-", "%d", "T", "%H", ":", "%M", ":", "%S">>

FMT_ESPACIO == <<"%Y", "-", "%m", "-", "%d", " ", "%H", ":", "%M", ":", "%S">>

FMT_ISO_FRAC ==
    <<"%Y", "-", "%m", "-", "%d", "T", "%H", ":", "%M", ":", "%S", ".", "%f">>

FMT_SOLO_FECHA == <<"%Y", "-", "%m", "-", "%d">>

\* the same formats with the second and the third exchanged
formatos_otro_orden == <<FMT_ISO, FMT_ISO_FRAC, FMT_ESPACIO, FMT_SOLO_FECHA>>

\* the list formatos of _convertir_fecha, in the order of the code
formatos == <<FMT_ISO, FMT_ESPACIO, FMT_ISO_FRAC, FMT_SOLO_FECHA>>

MsgFecha(s) == [tipo |-> "fecha", archivo |-> <<>>, detalle |-> s]

\* the for loop of _convertir_fecha from the k-th format on
RECURSIVE BucleFormatos(_, _)
BucleFormatos(s, k) ==
    IF k > Len(formatos)
    THEN [ret |-> None, impreso |-> <<MsgFecha(s)>>]
    ELSE Uno({IF r.error THEN BucleFormatos(s, k + 1)
              ELSE [ret |-> Some(r.val), impreso |-> <<>>]
              : r \in {strptime(s, formatos[k])}})

\* CFDIParser._convertir_fecha; fecha_str is an Optional[str]
_convertir_fecha(f) ==
    IF ~Truthy(f) THEN [ret |-> None, impreso |-> <<>>]
    ELSE BucleFormatos(Val(f), 1)

\* a conversion that yields 0.0 where float() raises
_convertir_a_float_cero(valor) ==
    IF ~Truthy(valor) THEN None
    ELSE Uno({IF r.error THEN Some(Normal(FALSE, 0, 0)) ELSE Some(r.val)
              : r \in {float_py(Val(valor))}})

\* CFDIParser._convertir_a_float; valor is an Optional[str]
_convertir_a_float(valor) ==
    IF ~Truthy(valor) THEN None
    ELSE Uno({IF r.error THEN None ELSE Some(r.val)
              : r \in {float_py(Val(valor))}})

----
\* XML documents as xml.etree.ElementTree holds them.  An element is
\* [ns, nombre, attrs, hijos]: its tag is "{ns}nombre" (ns = "" for a tag in
\* no namespace), attrs is a function from the names of the attributes
\* present to their values, hijos the child elements in document order.
\* A file is [nombre, existe, bien_formado, raiz].

NS_CFDI4 == "http://www.sat.gob.mx/cfd/4"

NS_CFDI3 == "http://www.sat.gob.mx/cfd/3"

NS_TFD == "http://www.sat.gob.mx/TimbreFiscalDigital"

NS_XSI == "http://www.w3.org/2001/XMLSchema-instance"

CFDI_NAMESPACES ==
    [cfdi |-> NS_CFDI4, cfdi3 |-> NS_CFDI3, tfd |-> NS_TFD, xsi |-> NS_XSI]

V40 == <<"4", ".", "0">>

V33 == <<"3", ".", "3">>

MXN == <<"M", "X", "N">>

\* Element.get(n)
Get(e, n) == IF n \in DOMAIN e.attrs THEN Some(e.attrs[n]) ELSE None

\* Element.get(n, default)
GetDef(e, n, def) == IF n \in DOMAIN e.attrs THEN Some(e.attrs[n]) ELSE Some(def)

\* Element.find("prefijo:nombre", tabla): the first child with that tag
Find(e, tabla, prefijo, nombre) ==
    LET ks == {k \in DOMAIN e.hijos :
                 e.hijos[k].ns = tabla[prefijo] /\ e.hijos[k].nombre = nombre}
    IN  IF ks = {} THEN None
        ELSE Some(e.hijos[CHOOSE k \in ks : \A j \in ks : k <= j])

\* every element below e, in document order
RECURSIVE Descendientes(_)
RECURSIVE DescendientesDe(_, _)
DescendientesDe(hs, k) ==
    IF k > Len(hs) THEN <<>>
    ELSE <<hs[k]>> \o Descendientes(hs[k]) \o DescendientesDe(hs, k + 1)

Descendientes(e) == DescendientesDe(e.hijos, 1)

\* Element.find(".//prefijo:nombre", tabla): the first descendant with that tag
FindProfundo(e, tabla, prefijo, nombre) ==
    LET ds == Descendientes(e)
        ks == {k \in DOMAIN ds : ds[k].ns = tabla[prefijo] /\ ds[k].nombre = nombre}
    IN  IF ks = {} THEN None
        ELSE Some(ds[CHOOSE k \in ks : \A j \in ks : k <= j])

----
\* CFDIData and CFDIParser

\* CFDIData(): every field None
CFDIData ==
    [folio |-> None, serie |-> None, fecha_emision |-> None, total |-> None,
     subtotal |-> None, moneda |-> None, emisor_rfc |-> None,
     emisor_nombre |-> None, emisor_regimen |-> None, receptor_rfc |-> None,
     receptor_nombre |-> None, uuid |-> None, fecha_timbrado |-> None,
     version |-> None, archivo_origen |-> None]

Campos == DOMAIN CFDIData

\* a detection that reads the Version attribute whatever the namespace
_detectar_version_attr(root) == GetDef(root, "Version", V33)[1]

\* CFDIParser._detectar_version.  root.tag.startswith("{uri}") holds exactly
\* when the tag's namespace is uri: the "}" closes the namespace.
_detectar_version(root) ==
    IF root.ns = NS_CFDI4 THEN V40
    ELSE IF root.ns = NS_CFDI3 THEN V33
    ELSE GetDef(root, "Version", V33)[1]

\* an extraction without the test complemento is not None
_extraer_timbre_fiscal_sin_guardia(tabla, root, cfdi) ==
    Uno({IF EsNone(complemento)
         THEN [exc |-> "AttributeError", cfdi |-> cfdi, impreso |-> <<>>]
         ELSE Uno({[exc |-> "",
                    cfdi |-> [cfdi EXCEPT !.uuid = Get(Val(complemento), "UUID"),
                                          !.fecha_timbrado = f.ret],
                    impreso |-> f.impreso]
                   : f \in {_convertir_fecha(Get(Val(complemento), "FechaTimbrado"))}})
         : complemento \in {FindProfundo(root, tabla, "tfd", "TimbreFiscalDigital")}})

\* CFDIParser._extraer_timbre_fiscal: [exc, cfdi, impreso], exc the exception
\* it raises ("" for none)
_extraer_timbre_fiscal(tabla, root, cfdi) ==
    Uno({IF EsNone(complemento)
         THEN [exc |-> "", cfdi |-> cfdi, impreso |-> <<>>]
         ELSE Uno({[exc |-> "",
                    cfdi |-> [cfdi EXCEPT !.uuid = Get(Val(complemento), "UUID"),
                                          !.fecha_timbrado = f.ret],
                    impreso |-> f.impreso]
                   : f \in {_convertir_fecha(Get(Val(complemento), "FechaTimbrado"))}})
         : complemento \in {FindProfundo(root, tabla, "tfd", "TimbreFiscalDigital")}})

\* CFDIParser._parsear_cfdi_v4: [exc, cfdi, impreso]; nombre is archivo.name.
\* The fields of the record are assigned from a CFDIData() whose fields are
\* all None, so a field the code does not assign stays None.
_parsear_cfdi_v4(tabla, root, nombre) ==
    Uno({Uno({[exc |-> t.exc, cfdi |-> t.cfdi, impreso |-> fecha.impreso \o t.impreso]
              : t \in {_extraer_timbre_fiscal(tabla, root,
                         [CFDIData EXCEPT
                            !.version = Some(V40),
                            !.archivo_origen = Some(nombre),
                            !.folio = Get(root, "Folio"),
                            !.serie = Get(root, "Serie"),
                            !.total = _convertir_a_float(Get(root, "Total")),
                            !.subtotal = _convertir_a_float(Get(root, "SubTotal")),
                            !.moneda = GetDef(root, "Moneda", MXN),
                            !.fecha_emision = fecha.ret,
                            !.emisor_rfc =
                               IF EsNone(emisor) THEN None
                               ELSE Get(Val(emisor), "Rfc"),
                            !.emisor_nombre =
                               IF EsNone(emisor) THEN None
                               ELSE Get(Val(emisor), "Nombre"),
                            !.emisor_regimen =
                               IF EsNone(emisor) THEN None
                               ELSE Get(Val(emisor), "RegimenFiscal"),
                            !.receptor_rfc =
                               IF EsNone(receptor) THEN None
                               ELSE Get(Val(receptor), "Rfc"),
                            !.receptor_nombre =
                               IF EsNone(receptor) THEN None
                               ELSE Get(Val(receptor), "Nombre")])}})
         : fecha \in {_convertir_fecha(Get(root, "Fecha"))},
           emisor \in {Find(root, tabla, "cfdi", "Emisor")},
           receptor \in {Find(root, tabla, "cfdi", "Receptor")}})

\* the local table ns of _parsear_cfdi_v3
NS_V3 == [cfdi |-> NS_CFDI3]

\* a v3.3 mapping whose lookups try the PascalCase form first
_parsear_cfdi_v3_mayusculas(tabla, root, nombre) ==
    Uno({Uno({[exc |-> t.exc, cfdi |-> t.cfdi, impreso |-> fecha.impreso \o t.impreso]
              : t \in {_extraer_timbre_fiscal(tabla, root,
                         [CFDIData EXCEPT
                            !.version = Some(V33),
                            !.archivo_origen = Some(nombre),
                            !.folio = Or(Get(root, "Folio"), Get(root, "folio")),
                            !.serie = Or(Get(root, "Serie"), Get(root, "serie")),
                            !.total = _convertir_a_float(
                                        Or(Get(root, "Total"), Get(root, "total"))),
                            !.subtotal = _convertir_a_float(
                                           Or(Get(root, "SubTotal"), Get(root, "subTotal"))),
                            !.moneda = GetDef(root, "Moneda", MXN),
                            !.fecha_emision = fecha.ret,
                            !.emisor_rfc =
                               IF EsNone(emisor) THEN None
                               ELSE Or(Get(Val(emisor), "Rfc"), Get(Val(emisor), "rfc")),
                            !.emisor_nombre =
                               IF EsNone(emisor) THEN None
                               ELSE Or(Get(Val(emisor), "Nombre"), Get(Val(emisor), "nombre")),
                            !.receptor_rfc =
                               IF EsNone(receptor) THEN None
                               ELSE Or(Get(Val(receptor), "Rfc"), Get(Val(receptor), "rfc")),
                            !.receptor_nombre =
                               IF EsNone(receptor) THEN None
                               ELSE Or(Get(Val(receptor), "Nombre"), Get(Val(receptor), "nombre"))])}})
         : fecha \in {_convertir_fecha(Or(Get(root, "Fecha"), Get(root, "fecha")))},
           emisor \in {Find(root, NS_V3, "cfdi", "Emisor")},
           receptor \in {Find(root, NS_V3, "cfdi", "Receptor")}})

\* CFDIParser._parsear_cfdi_v3: [exc, cfdi, impreso]
_parsear_cfdi_v3(tabla, root, nombre) ==
    Uno({Uno({[exc |-> t.exc, cfdi |-> t.cfdi, impreso |-> fecha.impreso \o t.impreso]
              : t \in {_extraer_timbre_fiscal(tabla, root,
                         [CFDIData EXCEPT
                            !.version = Some(V33),
                            !.archivo_origen = Some(nombre),
                            !.folio = Or(Get(root, "folio"), Get(root, "Folio")),
                            !.serie = Or(Get(root, "serie"), Get(root, "Serie")),
                            !.total = _convertir_a_float(
                                        Or(Get(root, "total"), Get(root, "Total"))),
                            !.subtotal = _convertir_a_float(
                                           Or(Get(root, "subTotal"), Get(root, "SubTotal"))),
                            !.moneda = GetDef(root, "Moneda", MXN),
                            !.fecha_emision = fecha.ret,
                            !.emisor_rfc =
                               IF EsNone(emisor) THEN None
                               ELSE Or(Get(Val(emisor), "rfc"), Get(Val(emisor), "Rfc")),
                            !.emisor_nombre =
                               IF EsNone(emisor) THEN None
                               ELSE Or(Get(Val(emisor), "nombre"), Get(Val(emisor), "Nombre")),
                            !.receptor_rfc =
                               IF EsNone(receptor) THEN None
                               ELSE Or(Get(Val(receptor), "rfc"), Get(Val(receptor), "Rfc")),
                            !.receptor_nombre =
                               IF EsNone(receptor) THEN None
                               ELSE Or(Get(Val(receptor), "nombre"), Get(Val(receptor), "Nombre"))])}})
         : fecha \in {_convertir_fecha(Or(Get(root, "fecha"), Get(root, "Fecha")))},
           emisor \in {Find(root, NS_V3, "cfdi", "Emisor")},
           receptor \in {Find(root, NS_V3, "cfdi", "Receptor")}})

\* a line printed: its kind, the file it names and the text it carries
Msg(tipo, nombre, detalle) == [tipo |-> tipo, archivo |-> nombre, detalle |-> detalle]

\* the try block of parsear_archivo (lines 65-79): [exc, detalle, cfdi,
\* impreso], exc the exception it raises ("" for none)
CuerpoParsear(tabla, a) ==
    IF ~a.existe
    THEN [exc |-> "FileNotFoundError", detalle |-> <<>>, cfdi |-> CFDIData,
          impreso |-> <<>>]
    ELSE IF a.directorio
    THEN [exc |-> "IsADirectoryError", detalle |-> <<>>, cfdi |-> CFDIData,
          impreso |-> <<>>]
    ELSE IF ~a.bien_formado
    THEN [exc |-> "ParseError", detalle |-> <<>>, cfdi |-> CFDIData,
          impreso |-> <<>>]
    ELSE Uno({IF version = V40
              THEN Uno({[exc |-> r.exc, detalle |-> <<>>, cfdi |-> r.cfdi,
                         impreso |-> r.impreso]
                        : r \in {_parsear_cfdi_v4(tabla, a.raiz, a.nombre)}})
              ELSE IF version = V33
              THEN Uno({[exc |-> r.exc, detalle |-> <<>>, cfdi |-> r.cfdi,
                         impreso |-> r.impreso]
                        : r \in {_parsear_cfdi_v3(tabla, a.raiz, a.nombre)}})
              ELSE [exc |-> "ValueError", detalle |-> version, cfdi |-> CFDIData,
                    impreso |-> <<>>]
              : version \in {_detectar_version(a.raiz)}})

\* an entry point whose handler is except ValueError
parsear_archivo_solo_valueerror(tabla, a) ==
    Uno({IF c.exc = "ValueError"
         THEN [lanza |-> "", ret |-> None,
               impreso |-> c.impreso \o <<Msg(c.exc, a.nombre, c.detalle)>>]
         ELSE [lanza |-> c.exc, ret |-> IF c.exc = "" THEN Some(c.cfdi) ELSE None,
               impreso |-> c.impreso]
         : c \in {CuerpoParsear(tabla, a)}})

\* CFDIParser.parsear_archivo with self.namespaces = tabla: [lanza, ret,
\* impreso], the exception that reaches the caller ("" for none), the value
\* returned and the lines printed.  "except Exception" catches whatever the
\* try block raises, prints one line and returns None.
parsear_archivo(tabla, a) ==
    Uno({IF c.exc # ""
         THEN [lanza |-> "", ret |-> None,
               impreso |-> c.impreso \o <<Msg(c.exc, a.nombre, c.detalle)>>]
         ELSE [lanza |-> "", ret |-> Some(c.cfdi), impreso |-> c.impreso]
         : c \in {CuerpoParsear(tabla, a)}})

\* parsear_cfdi: a new CFDIParser, bound to the table, and one call
parsear_cfdi(tabla, a) == parsear_archivo(tabla, a)

----
\* obtener_resumen_cfdi

\* str(x) inside an f-string, x an Optional[str]
Str(o) == IF EsNone(o) THEN <<"N", "o", "n", "e">> ELSE Val(o)

DosCifras(n) == <<CifraDe(n \div 10), CifraDe(n % 10)>>

\* datetime.strftime("%d/%m/%Y"), for years of four digits
strftime_dmY(d) ==
    DosCifras(d.day) \o <<"/">> \o DosCifras(d.month) \o <<"/">> \o CifrasDe(d.year)

\* |x| in hundredths, rounded to nearest.  A decimal tie (the third decimal
\* is a final 5) is rounded by the binary64 neighbour of x in Python; the
\* numeric inputs of this model hold no tie, and the tie is resolved to even.
Centesimas(x) ==
    IF x.exp >= -2 THEN x.mant * Pot10(x.exp + 2)
    ELSE LET p == Pot10(-2 - x.exp)
             q == x.mant \div p
             r == x.mant % p
         IN  IF 2 * r > p THEN q + 1
             ELSE IF 2 * r < p THEN q
             ELSE IF q % 2 = 0 THEN q ELSE q + 1

\* the digits ds with a comma before every group of three from the right
Miles(ds) ==
    [k \in 1..(Len(ds) + (Len(ds) - 1) \div 3) |->
       LET r == Len(ds) + (Len(ds) - 1) \div 3 - k
       IN  IF r % 4 = 3 THEN "," ELSE ds[Len(ds) - (r - r \div 4)]]

\* format(x, ",.2f")
FormatoMiles2f(x) ==
    LET c == Centesimas(x)
    IN  (IF x.neg THEN <<"-">> ELSE <<>>) \o Miles(CifrasDe(c \div 100))
        \o <<".">> \o DosCifras(c % 100)

\* the entry 'total' of obtener_resumen_cfdi
ResumenTotal(cfdi_data) ==
    IF ~EsNone(cfdi_data.total) /\ FloatTruthy(Val(cfdi_data.total))
    THEN Some(<<"$">> \o FormatoMiles2f(Val(cfdi_data.total)) \o <<" ">>
              \o Str(cfdi_data.moneda))
    ELSE None

obtener_resumen_cfdi(cfdi_data) ==
    [folio_completo |-> IF Truthy(cfdi_data.serie)
                        THEN Some(Str(cfdi_data.serie) \o <<"-">>
                                  \o Str(cfdi_data.folio))
                        ELSE cfdi_data.folio,
     fecha_emision |-> IF ~EsNone(cfdi_data.fecha_emision)
                       THEN Some(strftime_dmY(Val(cfdi_data.fecha_emision)))
                       ELSE None,
     emisor |-> Or(cfdi_data.emisor_nombre, cfdi_data.emisor_rfc),
     receptor |-> Or(cfdi_data.receptor_nombre, cfdi_data.receptor_rfc),
     total |-> ResumenTotal(cfdi_data),
     uuid |-> cfdi_data.uuid,
     archivo |-> cfdi_data.archivo_origen]

----
\* Editing documents: the positions of a tree are paths of child indices.

Rutas(raiz) ==
    {<<>>} \cup {<<k>> : k \in DOMAIN raiz.hijos}
    \cup UNION {{<<k, j>> : j \in DOMAIN raiz.hijos[k].hijos} : k \in DOMAIN raiz.hijos}

ElemEn(raiz, p) ==
    IF Len(p) = 0 THEN raiz
    ELSE IF Len(p) = 1 THEN raiz.hijos[p[1]]
    ELSE raiz.hijos[p[1]].hijos[p[2]]

ConElem(raiz, p, e) ==
    IF Len(p) = 0 THEN e
    ELSE IF Len(p) = 1 THEN [raiz EXCEPT !.hijos[p[1]] = e]
    ELSE [raiz EXCEPT !.hijos[p[1]].hijos[p[2]] = e]

SinPos(hs, k) == SubSeq(hs, 1, k - 1) \o SubSeq(hs, k + 1, Len(hs))

\* the tree without the element at the non-empty path p
SinElem(raiz, p) ==
    IF Len(p) = 1 THEN [raiz EXCEPT !.hijos = SinPos(@, p[1])]
    ELSE [raiz EXCEPT !.hijos[p[1]].hijos = SinPos(@, p[2])]

PonAttr(e, n, v) ==
    [e EXCEPT !.attrs = [m \in DOMAIN e.attrs \cup {n} |->
                           IF m = n THEN v ELSE e.attrs[m]]]

QuitaAttr(e, n) ==
    [e EXCEPT !.attrs = [m \in DOMAIN e.attrs \ {n} |-> e.attrs[m]]]

ConAttr(raiz, p, n, v) == ConElem(raiz, p, PonAttr(ElemEn(raiz, p), n, v))

SinAttr(raiz, p, n) == ConElem(raiz, p, QuitaAttr(ElemEn(raiz, p), n))

----
\* The documents the extractor is run on: four well-formed documents, every
\* document MaxEdiciones edits away from one of them, and files that are
\* missing or not well-formed XML.

MaxEdiciones == 1

Elem(ns, nombre, attrs, hijos) ==
    [ns |-> ns, nombre |-> nombre, attrs |-> attrs, hijos |-> hijos]

Timbre ==
    Elem(NS_TFD, "TimbreFiscalDigital",
         [UUID |-> <<"U">>, FechaTimbrado |-> <<"2", "0", "2", "4", "-", "0", "1", "-", "1", "5", "T", "1", "0", ":", "3", "1", ":", "0", "0">>], <<>>)

\* a CFDI 4.0 with every attribute the extractor reads
DocV4 ==
    Elem(NS_CFDI4, "Comprobante",
         [Version |-> V40, Folio |-> <<"1", "2">>, Serie |-> <<"A">>,
          Total |-> <<"1", "2", "3", "4", ".", "5", "0">>, SubTotal |-> <<"1", "0", "0", "0">>,
          Moneda |-> <<"U", "S", "D">>, Fecha |-> <<"2", "0", "2", "4", "-", "0", "1", "-", "1", "5", "T", "1", "0", ":", "3", "0", ":", "0", "0">>],
         <<Elem(NS_CFDI4, "Emisor",
                [Rfc |-> <<"E">>, Nombre |-> <<"N">>,
                 RegimenFiscal |-> <<"6", "0", "1">>], <<>>),
           Elem(NS_CFDI4, "Receptor", [Rfc |-> <<"R">>, Nombre |-> <<"M">>], <<>>),
           Elem(NS_CFDI4, "Complemento", <<>>, <<Timbre>>)>>)

\* a CFDI 3.3 written with PascalCase attribute names
DocV3 ==
    Elem(NS_CFDI3, "Comprobante",
         [Version |-> V33, Folio |-> <<"3", "4">>, Serie |-> <<"B">>,
          Total |-> <<"5", "8", "0", ".", "0", "0">>, SubTotal |-> <<"5", "0", "0">>,
          Moneda |-> <<"U", "S", "D">>, Fecha |-> <<"2", "0", "2", "4", "-", "0", "1", "-", "1", "5", " ", "1", "0", ":", "3", "0", ":", "0", "0">>],
         <<Elem(NS_CFDI3, "Emisor", [Rfc |-> <<"E">>, Nombre |-> <<"N">>], <<>>),
           Elem(NS_CFDI3, "Receptor", [Rfc |-> <<"R">>, Nombre |-> <<"M">>], <<>>),
           Elem(NS_CFDI3, "Complemento", <<>>, <<Timbre>>)>>)

\* a CFDI of the 3.x family written with lowercase-initial attribute names
DocV3min ==
    Elem(NS_CFDI3, "Comprobante",
         [version |-> <<"3", ".", "2">>, folio |-> <<"5", "6">>, serie |-> <<"C">>,
          total |-> <<"1", "1", "6", ".", "0", "0">>, subTotal |-> <<"1", "0", "0">>,
          fecha |-> <<"2", "0", "2", "4", "-", "0", "1", "-", "1", "5">>],
         <<Elem(NS_CFDI3, "Emisor", [rfc |-> <<"e">>, nombre |-> <<"n">>], <<>>),
           Elem(NS_CFDI3, "Receptor", [rfc |-> <<"r">>, nombre |-> <<"m">>], <<>>),
           Timbre>>)

\* a document whose root is in no namespace and declares a version the
\* extractor does not support
DocSinNs ==
    Elem("", "Comprobante",
         [Version |-> <<"3", ".", "2">>, Folio |-> <<"7", "8">>, folio |-> <<"9">>,
          Total |-> <<"1", "0", ".", "0", "0">>],
         <<Elem(NS_CFDI3, "Emisor", [Rfc |-> <<"E">>, rfc |-> <<"e">>], <<>>),
           Elem(NS_CFDI4, "Receptor", [Rfc |-> <<"R">>], <<>>)>>)

NombreXml == <<"f", ".", "x", "m", "l">>

ArchivoCon(raiz) ==
    [nombre |-> NombreXml, existe |-> TRUE, directorio |-> FALSE,
     bien_formado |-> TRUE, raiz |-> raiz]

ArchivosBase ==
    {ArchivoCon(DocV4), ArchivoCon(DocV3), ArchivoCon(DocV3min), ArchivoCon(DocSinNs)}

\* the attribute names an edit may write on an element, by its local name
AtributosDe(nombre) ==
    CASE nombre = "Comprobante" ->
           {"Folio", "folio", "Serie", "serie", "Total", "total", "SubTotal",
            "subTotal", "Moneda", "moneda", "Fecha", "fecha", "Version"}
      [] nombre = "Emisor" -> {"Rfc", "rfc", "Nombre", "nombre", "RegimenFiscal"}
      [] nombre = "Receptor" -> {"Rfc", "rfc", "Nombre", "nombre"}
      [] nombre = "TimbreFiscalDigital" -> {"UUID", "FechaTimbrado"}
      [] OTHER -> {}

AtributosNumericos == {"Total", "total", "SubTotal", "subTotal"}

AtributosFecha == {"Fecha", "fecha", "FechaTimbrado"}

NumerosValidos == {<<"0", ".", "0", "0">>, <<"7", "7", ".", "5">>}

FechasValidas == {<<"2", "0", "2", "4", "-", "0", "3", "-", "0", "1">>}

\* the values an edit may write on an attribute
ValoresDe(n) ==
    IF n \in AtributosNumericos
    THEN {<<>>, <<"a", "b", "c">>} \cup NumerosValidos
    ELSE IF n \in AtributosFecha
    THEN {<<>>, <<"1", "5", "/", "0", "1", "/", "2", "0", "2", "4">>} \cup FechasValidas
    ELSE IF n \in {"Moneda", "moneda"} THEN {<<>>, <<"E", "U", "R">>}
    ELSE IF n = "Version" THEN {<<>>, V40, V33, <<"3", ".", "2">>}
    ELSE {<<>>, <<"X">>}

EspaciosDeNombres == {NS_CFDI4, NS_CFDI3, NS_TFD, ""}

Editable ==
    /\ fase = "editando"
    /\ ediciones < MaxEdiciones
    /\ archivo.existe
    /\ archivo.bien_formado

OtrosSinXml ==
    UNCHANGED <<namespaces, historial, fecha_str, intentos, fecha_pc, fecha_res,
                fecha_diag, fs, escribible, antes, init_res, pendientes,
                entradas, listado, pos, cfdis, lote_pc>>

Editado(a) ==
    /\ a # archivo
    /\ archivo' = a
    /\ ediciones' = ediciones + 1
    /\ UNCHANGED <<fase, resultado, mensajes, excepcion, resumen>>
    /\ OtrosSinXml

EscribirAtributo ==
    /\ Editable
    /\ \E p \in Rutas(archivo.raiz) :
         \E n \in AtributosDe(ElemEn(archivo.raiz, p).nombre) :
           \E v \in ValoresDe(n) :
             Editado([archivo EXCEPT !.raiz = ConAttr(archivo.raiz, p, n, v)])

BorrarAtributo ==
    /\ Editable
    /\ \E p \in Rutas(archivo.raiz) :
         \E n \in DOMAIN ElemEn(archivo.raiz, p).attrs :
           Editado([archivo EXCEPT !.raiz = SinAttr(archivo.raiz, p, n)])

BorrarElemento ==
    /\ Editable
    /\ \E p \in Rutas(archivo.raiz) \ {<<>>} :
         Editado([archivo EXCEPT !.raiz = SinElem(archivo.raiz, p)])

CambiarEspacioDeNombres ==
    /\ Editable
    /\ \E p \in Rutas(archivo.raiz) :
         \E u \in EspaciosDeNombres :
           Editado([archivo EXCEPT
                      !.raiz = ConElem(archivo.raiz, p,
                                       [ElemEn(archivo.raiz, p) EXCEPT !.ns = u])])

BorrarArchivo ==
    /\ Editable
    /\ Editado([archivo EXCEPT !.existe = FALSE])

CorromperArchivo ==
    /\ Editable
    /\ Editado([archivo EXCEPT !.bien_formado = FALSE])

\* a call parser.parsear_archivo(archivo)
LlamarParsearArchivo ==
    /\ fase = "editando"
    /\ \E r \in {parsear_archivo(namespaces, archivo)} :
         /\ resultado' = r.ret
         /\ mensajes' = r.impreso
         /\ excepcion' = r.lanza
    /\ fase' = "parseado"
    /\ UNCHANGED <<archivo, ediciones, resumen>>
    /\ OtrosSinXml

\* a call obtener_resumen_cfdi(resultado) on the record just extracted
LlamarObtenerResumen ==
    /\ fase = "parseado"
    /\ ~EsNone(resultado)
    /\ resumen' = Some(obtener_resumen_cfdi(Val(resultado)))
    /\ fase' = "resumido"
    /\ UNCHANGED <<archivo, ediciones, resultado, mensajes, excepcion>>
    /\ OtrosSinXml

\* the values of the variables a specification does not use
ReposoXml ==
    /\ archivo = ArchivoCon(DocV4)
    /\ ediciones = 0
    /\ fase = "editando"
    /\ resultado = None
    /\ mensajes = <<>>
    /\ excepcion = ""
    /\ resumen = None

ReposoInst == historial = <<>>

ReposoFecha ==
    /\ fecha_str = None
    /\ intentos = <<>>
    /\ fecha_pc = "inicio"
    /\ fecha_res = None
    /\ fecha_diag = <<>>

ReposoDirs ==
    /\ fs = <<>>
    /\ escribible = {}
    /\ antes = <<>>
    /\ init_res = ""

ReposoLote ==
    /\ pendientes = "ausente"
    /\ entradas = <<>>
    /\ listado = <<>>
    /\ pos = 0
    /\ cfdis = <<>>
    /\ lote_pc = "reposo"

InitXml ==
    /\ archivo \in ArchivosBase
    /\ ediciones = 0
    /\ fase = "editando"
    /\ resultado = None
    /\ mensajes = <<>>
    /\ excepcion = ""
    /\ resumen = None
    /\ namespaces = CFDI_NAMESPACES
    /\ ReposoInst
    /\ ReposoFecha
    /\ ReposoDirs
    /\ ReposoLote

NextXml ==
    \/ EscribirAtributo
    \/ BorrarAtributo
    \/ BorrarElemento
    \/ CambiarEspacioDeNombres
    \/ BorrarArchivo
    \/ CorromperArchivo
    \/ LlamarParsearArchivo
    \/ LlamarObtenerResumen

SpecXml == InitXml /\ [][NextXml]_vars

----
\* Properties of the extractor (SpecXml)

\* what a parser with the table of the source returns for the file a
ParseDe(a) == parsear_archivo(CFDI_NAMESPACES, a).ret

Legible == archivo.existe /\ archivo.bien_formado

VersionSoportada == Legible /\ _detectar_version(archivo.raiz) \in {V40, V33}

\* C1: parsear_archivo lets no exception through; for a missing file, a file
\* that is not well-formed XML and a detected version other than "4.0" and
\* "3.3" it returns None and prints one line naming the file and the cause;
\* in every other case it returns a record whose version is "4.0" or "3.3".
C1_FallosAbsorbidos ==
    fase = "parseado" =>
      /\ excepcion = ""
      /\ ~archivo.existe =>
           /\ EsNone(resultado)
           /\ mensajes = <<Msg("FileNotFoundError", archivo.nombre, <<>>)>>
      /\ archivo.existe /\ ~archivo.bien_formado =>
           /\ EsNone(resultado)
           /\ mensajes = <<Msg("ParseError", archivo.nombre, <<>>)>>
      /\ Legible /\ ~VersionSoportada =>
           /\ EsNone(resultado)
           /\ mensajes = <<Msg("ValueError", archivo.nombre,
                               _detectar_version(archivo.raiz))>>
      /\ VersionSoportada =>
           /\ ~EsNone(resultado)
           /\ Val(resultado).version \in {Some(V40), Some(V33)}

C1_Testigo ==
    /\ fase = "parseado"
    /\ Legible
    /\ ~VersionSoportada
    /\ EsNone(resultado)
    /\ Len(mensajes) = 1
    /\ mensajes[1].tipo = "ValueError"

\* C2: a root in the v4 namespace is version "4.0" and a root in the v3
\* namespace is version "3.3", whatever the Version attribute says; otherwise
\* the version is the value of the Version attribute, "3.3" when it is absent.
C2_PrecedenciaVersion ==
    fase = "parseado" /\ Legible =>
      LET root == archivo.raiz
          esV(v) == ~EsNone(resultado) /\ Val(resultado).version = Some(v)
      IN  /\ root.ns = NS_CFDI4 => esV(V40)
          /\ root.ns = NS_CFDI3 => esV(V33)
          /\ root.ns \notin {NS_CFDI4, NS_CFDI3} /\ "Version" \notin DOMAIN root.attrs =>
               esV(V33)
          /\ root.ns \notin {NS_CFDI4, NS_CFDI3} /\ "Version" \in DOMAIN root.attrs =>
               IF root.attrs["Version"] \in {V40, V33}
               THEN esV(root.attrs["Version"])
               ELSE /\ EsNone(resultado)
                    /\ mensajes[Len(mensajes)].tipo = "ValueError"
                    /\ mensajes[Len(mensajes)].detalle = root.attrs["Version"]

C2_Testigo ==
    /\ fase = "parseado"
    /\ Legible
    /\ archivo.raiz.ns \notin {NS_CFDI4, NS_CFDI3}
    /\ "Version" \notin DOMAIN archivo.raiz.attrs
    /\ ~EsNone(resultado)
    /\ Val(resultado).version = Some(V33)

\* the field of the record an attribute is mapped to
CampoDe(n) ==
    CASE n \in {"Folio", "folio"} -> "folio"
      [] n \in {"Serie", "serie"} -> "serie"
      [] n \in {"Total", "total"} -> "total"
      [] n \in {"SubTotal", "subTotal"} -> "subtotal"
      [] n \in {"Fecha", "fecha"} -> "fecha_emision"
      [] n = "FechaTimbrado" -> "fecha_timbrado"

NoConvertible(n, v) ==
    /\ v # <<>>
    /\ IF n \in AtributosNumericos THEN float_py(v).error
       ELSE EsNone(_convertir_fecha(Some(v)).ret)

\* C3: in a well-formed document of a supported version, a numeric or date
\* attribute that cannot be converted does not make the parse fail and
\* changes no field but its own: with the attribute replaced by a valid
\* value every other field is the same, and its own field is None unless the
\* attribute is not the one the field is read from.
C3_ExitoParcial ==
    fase = "parseado" /\ VersionSoportada =>
      \A p \in Rutas(archivo.raiz) :
        \A n \in DOMAIN ElemEn(archivo.raiz, p).attrs
                   \cap (AtributosNumericos \cup AtributosFecha) :
          NoConvertible(n, ElemEn(archivo.raiz, p).attrs[n]) =>
            /\ ~EsNone(resultado)
            /\ \A w \in (IF n \in AtributosNumericos THEN NumerosValidos
                         ELSE FechasValidas) :
                 \E r2 \in {ParseDe([archivo EXCEPT
                                       !.raiz = ConAttr(archivo.raiz, p, n, w)])} :
                   /\ ~EsNone(r2)
                   /\ \A c \in Campos \ {CampoDe(n)} :
                        Val(resultado)[c] = Val(r2)[c]
                   /\ \/ EsNone(Val(resultado)[CampoDe(n)])
                      \/ Val(resultado)[CampoDe(n)] = Val(r2)[CampoDe(n)]

C3_Testigo ==
    /\ fase = "parseado"
    /\ VersionSoportada
    /\ Get(archivo.raiz, "Total") = Some(<<"a", "b", "c">>)
    /\ ~EsNone(resultado)
    /\ EsNone(Val(resultado).total)
    /\ ~EsNone(Val(resultado).subtotal)
    /\ ~EsNone(Val(resultado).folio)
    /\ ~EsNone(Val(resultado).fecha_emision)

\* the fields derived from attribute n of an element called nombre
DerivadosDeAtributo(nombre, n) ==
    CASE nombre = "Comprobante" /\ n \in {"Folio", "folio", "Serie", "serie", "Total",
                                          "total", "SubTotal", "subTotal", "Fecha",
                                          "fecha"} -> {CampoDe(n)}
      [] nombre = "Comprobante" /\ n = "Moneda" -> {"moneda"}
      [] nombre = "Comprobante" /\ n = "Version" -> {"version"}
      [] nombre = "Emisor" /\ n \in {"Rfc", "rfc"} -> {"emisor_rfc"}
      [] nombre = "Emisor" /\ n \in {"Nombre", "nombre"} -> {"emisor_nombre"}
      [] nombre = "Emisor" /\ n = "RegimenFiscal" -> {"emisor_regimen"}
      [] nombre = "Receptor" /\ n \in {"Rfc", "rfc"} -> {"receptor_rfc"}
      [] nombre = "Receptor" /\ n \in {"Nombre", "nombre"} -> {"receptor_nombre"}
      [] nombre = "TimbreFiscalDigital" /\ n = "UUID" -> {"uuid"}
      [] nombre = "TimbreFiscalDigital" /\ n = "FechaTimbrado" -> {"fecha_timbrado"}
      [] OTHER -> {}

\* the fields derived from an element called nombre (or from what it holds)
DerivadosDeElemento(nombre) ==
    CASE nombre = "Emisor" -> {"emisor_rfc", "emisor_nombre", "emisor_regimen"}
      [] nombre = "Receptor" -> {"receptor_rfc", "receptor_nombre"}
      [] nombre \in {"TimbreFiscalDigital", "Complemento"} -> {"uuid", "fecha_timbrado"}
      [] OTHER -> {}

\* the parse of the file without attribute n of the element at p succeeds and
\* agrees with resultado on every field not derived from that attribute
SinAtributoIgual(p, n) ==
    \E r2 \in {ParseDe([archivo EXCEPT !.raiz = SinAttr(archivo.raiz, p, n)])} :
      /\ ~EsNone(r2)
      /\ \A c \in Campos \ DerivadosDeAtributo(ElemEn(archivo.raiz, p).nombre, n) :
           Val(resultado)[c] = Val(r2)[c]

SinElementoIgual(p) ==
    \E r2 \in {ParseDe([archivo EXCEPT !.raiz = SinElem(archivo.raiz, p)])} :
      /\ ~EsNone(r2)
      /\ \A c \in Campos \ DerivadosDeElemento(ElemEn(archivo.raiz, p).nombre) :
           Val(resultado)[c] = Val(r2)[c]

NombresBajo(e) == {Descendientes(e)[k].nombre : k \in DOMAIN Descendientes(e)}

NombresHijos(e) == {e.hijos[k].nombre : k \in DOMAIN e.hijos}

\* what a record holds for what the document lacks
AusenteEsNone ==
    LET root == archivo.raiz
        r == Val(resultado)
        falta(l, P) == l \notin DOMAIN root.attrs /\ P \notin DOMAIN root.attrs
    IN  /\ falta("folio", "Folio") => EsNone(r.folio)
        /\ falta("serie", "Serie") => EsNone(r.serie)
        /\ falta("total", "Total") => EsNone(r.total)
        /\ falta("subTotal", "SubTotal") => EsNone(r.subtotal)
        /\ falta("fecha", "Fecha") => EsNone(r.fecha_emision)
        /\ "Moneda" \notin DOMAIN root.attrs => r.moneda = Some(MXN)
        /\ "Emisor" \notin NombresHijos(root) =>
             EsNone(r.emisor_rfc) /\ EsNone(r.emisor_nombre) /\ EsNone(r.emisor_regimen)
        /\ "Receptor" \notin NombresHijos(root) =>
             EsNone(r.receptor_rfc) /\ EsNone(r.receptor_nombre)
        /\ "TimbreFiscalDigital" \notin NombresBajo(root) =>
             EsNone(r.uuid) /\ EsNone(r.fecha_timbrado)

\* C4 as stated: taking any single attribute or element out of a well-formed
\* document of a supported version leaves the parse successful and changes no
\* field but those derived from it; what the document lacks is None in the
\* record (moneda "MXN").
C4_CualquierAusencia ==
    fase = "parseado" /\ VersionSoportada =>
      /\ ~EsNone(resultado)
      /\ AusenteEsNone
      /\ \A p \in Rutas(archivo.raiz) :
           /\ \A n \in DOMAIN ElemEn(archivo.raiz, p).attrs : SinAtributoIgual(p, n)
           /\ p # <<>> => SinElementoIgual(p)

\* the Version attribute of a root in neither CFDI namespace: the version is
\* read from it
VersionDecide(p, n) ==
    /\ p = <<>>
    /\ n = "Version"
    /\ archivo.raiz.ns \notin {NS_CFDI4, NS_CFDI3}

\* C4, amended: the same for every attribute and element but the Version
\* attribute of a root that is in neither CFDI namespace; without that
\* attribute the parse still succeeds (as version 3.3).
C4_AusenciaSalvoVersion ==
    fase = "parseado" /\ VersionSoportada =>
      /\ ~EsNone(resultado)
      /\ AusenteEsNone
      /\ \A p \in Rutas(archivo.raiz) :
           /\ \A n \in DOMAIN ElemEn(archivo.raiz, p).attrs :
                IF VersionDecide(p, n)
                THEN ParseDe([archivo EXCEPT !.raiz = SinAttr(archivo.raiz, p, n)])
                       # None
                ELSE SinAtributoIgual(p, n)
           /\ p # <<>> => SinElementoIgual(p)

C4_Testigo ==
    /\ fase = "parseado"
    /\ VersionSoportada
    /\ "TimbreFiscalDigital" \notin NombresBajo(archivo.raiz)
    /\ ~EsNone(resultado)
    /\ EsNone(Val(resultado).uuid)
    /\ EsNone(Val(resultado).fecha_timbrado)
    /\ ~EsNone(Val(resultado).folio)
    /\ ~EsNone(Val(resultado).emisor_rfc)

\* the lowercase-initial spelling of an attribute name
Minuscula(n) ==
    CASE n = "Folio" -> "folio"
      [] n = "Serie" -> "serie"
      [] n = "Total" -> "total"
      [] n = "SubTotal" -> "subTotal"
      [] n = "Fecha" -> "fecha"
      [] n = "Moneda" -> "moneda"
      [] n = "Version" -> "version"
      [] n = "Rfc" -> "rfc"
      [] n = "Nombre" -> "nombre"
      [] n = "RegimenFiscal" -> "regimenFiscal"
      [] OTHER -> n

\* e with every attribute but those of salvo under its lowercase-initial name
ConMinusculas(e, salvo) ==
    LET nuevo(n) == IF n \in salvo THEN n ELSE Minuscula(n)
    IN  [e EXCEPT !.attrs =
           [m \in {nuevo(n) : n \in DOMAIN e.attrs} |->
              e.attrs[CHOOSE n \in DOMAIN e.attrs : nuevo(n) = m]]]

\* the Comprobante, its Emisor and its Receptor (not the stamp, whose attribute
\* names belong to another schema) written with lowercase-initial names
EnMinusculas(root, salvo) ==
    [ConMinusculas(root, salvo) EXCEPT !.hijos =
       [k \in DOMAIN root.hijos |->
          IF root.hijos[k].nombre \in {"Emisor", "Receptor"}
          THEN ConMinusculas(root.hijos[k], salvo)
          ELSE root.hijos[k]]]

SoloPascal(e) == \A n \in DOMAIN e.attrs : Minuscula(n) = n => n \notin AtributosDe(e.nombre)

\* a v3.3 document written with PascalCase attribute names exclusively
DocumentoPascalV3 ==
    /\ Legible
    /\ _detectar_version(archivo.raiz) = V33
    /\ SoloPascal(archivo.raiz)
    /\ \A k \in DOMAIN archivo.raiz.hijos :
         archivo.raiz.hijos[k].nombre \in {"Emisor", "Receptor"} =>
           SoloPascal(archivo.raiz.hijos[k])

\* the value a v3.3 lookup with fallback yields on e
ConRespaldo(e, minus, pascal) ==
    IF Truthy(Get(e, minus)) THEN Get(e, minus) ELSE Get(e, pascal)

\* the lowercase-initial form wins if non-empty, otherwise the PascalCase form
PrecedenciaMinuscula ==
    LET root == archivo.raiz
        r == Val(resultado)
        emisor == Find(root, NS_V3, "cfdi", "Emisor")
        receptor == Find(root, NS_V3, "cfdi", "Receptor")
    IN  /\ r.folio = ConRespaldo(root, "folio", "Folio")
        /\ r.serie = ConRespaldo(root, "serie", "Serie")
        /\ r.total = _convertir_a_float(ConRespaldo(root, "total", "Total"))
        /\ r.subtotal = _convertir_a_float(ConRespaldo(root, "subTotal", "SubTotal"))
        /\ r.fecha_emision = _convertir_fecha(ConRespaldo(root, "fecha", "Fecha")).ret
        /\ ~EsNone(emisor) =>
             /\ r.emisor_rfc = ConRespaldo(Val(emisor), "rfc", "Rfc")
             /\ r.emisor_nombre = ConRespaldo(Val(emisor), "nombre", "Nombre")
        /\ ~EsNone(receptor) =>
             /\ r.receptor_rfc = ConRespaldo(Val(receptor), "rfc", "Rfc")
             /\ r.receptor_nombre = ConRespaldo(Val(receptor), "nombre", "Nombre")

\* C5 as stated: the record of a v3.3 document written with lowercase-initial
\* attribute names equals, field by field, the record of the same document
\* written with PascalCase names; with both forms present the
\* lowercase-initial one wins if non-empty, otherwise the PascalCase one.
C5_LeyMinusculas ==
    fase = "parseado" /\ Legible /\ _detectar_version(archivo.raiz) = V33 =>
      /\ ~EsNone(resultado)
      /\ PrecedenciaMinuscula
      /\ DocumentoPascalV3 =>
           ParseDe([archivo EXCEPT !.raiz = EnMinusculas(archivo.raiz, {})]) = resultado

\* r2 is r, but for text fields that are the empty string in r and None in r2
IgualSalvoVacios(r, r2) ==
    /\ ~EsNone(r2)
    /\ \A c \in Campos :
         \/ Val(r2)[c] = Val(r)[c]
         \/ Val(r)[c] = Some(<<>>) /\ EsNone(Val(r2)[c])

\* C5, amended: the same with Moneda kept in PascalCase, the only spelling
\* the currency is read from (a lowercase-initial moneda is ignored), and but
\* for empty text attributes: an empty PascalCase attribute yields the empty
\* string where the empty lowercase-initial attribute yields None.
C5_LeyMinusculasSalvoMoneda ==
    fase = "parseado" /\ Legible /\ _detectar_version(archivo.raiz) = V33 =>
      /\ ~EsNone(resultado)
      /\ PrecedenciaMinuscula
      /\ Val(resultado).moneda = GetDef(archivo.raiz, "Moneda", MXN)
      /\ DocumentoPascalV3 =>
           IgualSalvoVacios(resultado,
             ParseDe([archivo EXCEPT !.raiz = EnMinusculas(archivo.raiz, {"Moneda"})]))

C5_Testigo ==
    /\ fase = "parseado"
    /\ Legible
    /\ _detectar_version(archivo.raiz) = V33
    /\ Truthy(Get(archivo.raiz, "folio"))
    /\ Truthy(Get(archivo.raiz, "Folio"))
    /\ Get(archivo.raiz, "folio") # Get(archivo.raiz, "Folio")
    /\ ~EsNone(resultado)
    /\ Val(resultado).folio = Get(archivo.raiz, "folio")

\* digits in groups of three separated by commas, the first group of one to
\* three digits
EsAgrupado(w) ==
    /\ Len(w) > 0
    /\ \A i \in 1..Len(w) :
         IF (Len(w) - i) % 4 = 3 THEN w[i] = "," /\ i > 1 ELSE w[i] \in Digitos

\* $<number with thousands separators>.<2 digits> <moneda>
EsImporte(s, moneda) ==
    \E k \in 3..(Len(s) - 3) :
      /\ s[1] = "$"
      /\ EsAgrupado(SubSeq(s, IF s[2] = "-" THEN 3 ELSE 2, k - 1))
      /\ s[k] = "."
      /\ s[k + 1] \in Digitos
      /\ s[k + 2] \in Digitos
      /\ s[k + 3] = " "
      /\ SubSeq(s, k + 4, Len(s)) = moneda

\* C6: the 'total' entry of the summary is None exactly when the record's
\* total is None; for every other total, zero included, it is the string
\* $<number with thousands separators>.<2 digits> <currency>.
C6_TotalDelResumen ==
    fase = "resumido" =>
      /\ EsNone(Val(resumen).total) <=> EsNone(Val(resultado).total)
      /\ ~EsNone(Val(resultado).total) =>
           /\ ~EsNone(Val(resumen).total)
           /\ EsImporte(Val(Val(resumen).total), Str(Val(resultado).moneda))

----
\* _convertir_fecha, one iteration of its for loop at a time (SpecFecha).
\* intentos is the list of the formats handed to strptime so far.

PartesFecha ==
    {<<"2", "0", "2", "4", "-", "0", "1", "-", "1", "5">>, <<"2", "0", "2", "4", "-", "0", "2", "-", "3", "0">>, <<"2", "0", "2", "3", "-", "2", "-", "9">>,
     <<"1", "5", "/", "0", "1", "/", "2", "0", "2", "4">>, <<"0", "0", "0", "0", "-", "0", "1", "-", "0", "1">>}

Separadores == {<<>>, <<"T">>, <<"t">>, <<" ">>, <<" ", " ">>}

PartesHora == {<<>>, <<"1", "0", ":", "3", "0", ":", "0", "0">>, <<"2", "3", ":", "5", "9", ":", "6", "0">>, <<"7", ":", "5", ":", "3">>}

PartesFraccion == {<<>>, <<".", "5">>, <<".", "1", "2", "3", "4", "5", "6">>, <<".", "1", "2", "3", "4", "5", "6", "7">>, <<"Z">>}

\* the arguments _convertir_fecha is called with: None, the empty string and
\* every string made of a date, a separator, a time and a fraction
FechasDeEntrada ==
    {None, Some(<<>>)}
      \cup {Some(d \o sep \o h \o f) :
              d \in PartesFecha, sep \in Separadores, h \in PartesHora,
              f \in PartesFraccion}

OtrosSinFecha ==
    UNCHANGED <<archivo, ediciones, fase, resultado, mensajes, excepcion, resumen,
                namespaces, historial, fs, escribible, antes, init_res,
                pendientes, entradas, listado, pos, cfdis, lote_pc>>

\* if not fecha_str: return None
EntrarConvertirFecha ==
    /\ fecha_pc = "inicio"
    /\ IF ~Truthy(fecha_str)
       THEN fecha_pc' = "fin" /\ fecha_res' = None
       ELSE fecha_pc' = "bucle" /\ fecha_res' = fecha_res
    /\ UNCHANGED <<fecha_str, intentos, fecha_diag>>
    /\ OtrosSinFecha

\* one iteration: try: return datetime.strptime(fecha_str, formato)
\*                except ValueError: continue
ProbarFormato ==
    /\ fecha_pc = "bucle"
    /\ Len(intentos) < Len(formatos)
    /\ \E r \in {strptime(Val(fecha_str), formatos[Len(intentos) + 1])} :
         /\ intentos' = Append(intentos, formatos[Len(intentos) + 1])
         /\ IF r.error
            THEN fecha_pc' = "bucle" /\ fecha_res' = fecha_res
            ELSE fecha_pc' = "fin" /\ fecha_res' = Some(r.val)
    /\ UNCHANGED <<fecha_str, fecha_diag>>
    /\ OtrosSinFecha

\* the loop is over: print the diagnostic and return None
AgotarFormatos ==
    /\ fecha_pc = "bucle"
    /\ Len(intentos) = Len(formatos)
    /\ fecha_diag' = <<MsgFecha(Val(fecha_str))>>
    /\ fecha_res' = None
    /\ fecha_pc' = "fin"
    /\ UNCHANGED <<fecha_str, intentos>>
    /\ OtrosSinFecha

InitFecha ==
    /\ fecha_str \in FechasDeEntrada
    /\ intentos = <<>>
    /\ fecha_pc = "inicio"
    /\ fecha_res = None
    /\ fecha_diag = <<>>
    /\ namespaces = CFDI_NAMESPACES
    /\ ReposoXml
    /\ ReposoInst
    /\ ReposoDirs
    /\ ReposoLote

NextFecha ==
    \/ EntrarConvertirFecha
    \/ ProbarFormato
    \/ AgotarFormatos

SpecFecha == InitFecha /\ [][NextFecha]_vars

----
\* Properties of the date coercion (SpecFecha)

EsPrefijo(a, b) == Len(a) <= Len(b) /\ a = SubSeq(b, 1, Len(a))

\* the formats s parses with
FormatosQueCasan(s) ==
    {f \in {FMT_ISO, FMT_ISO_FRAC, FMT_ESPACIO, FMT_SOLO_FECHA} : ~strptime(s, f).error}

\* what the coercion yields whatever the order of the attempts: None for an
\* empty or missing string; the parse with a format that succeeds (no string
\* parses with two formats); otherwise None and a diagnostic
ResultadoDeFecha ==
    /\ ~Truthy(fecha_str) => EsNone(fecha_res) /\ intentos = <<>> /\ fecha_diag = <<>>
    /\ Truthy(fecha_str) =>
         /\ Cardinality(FormatosQueCasan(Val(fecha_str))) <= 1
         /\ \A f \in FormatosQueCasan(Val(fecha_str)) :
              /\ fecha_res = Some(strptime(Val(fecha_str), f).val)
              /\ intentos[Len(intentos)] = f
              /\ fecha_diag = <<>>
         /\ FormatosQueCasan(Val(fecha_str)) = {} =>
              /\ EsNone(fecha_res)
              /\ Len(intentos) = 4
              /\ fecha_diag = <<MsgFecha(Val(fecha_str))>>
    /\ fecha_str = Some(<<"2", "0", "2", "4", "-", "0", "1", "-", "1", "5", "T", "1", "0", ":", "3", "0", ":", "0", "0">>) =>
         fecha_res = Some([year |-> 2024, month |-> 1, day |-> 15, hour |-> 10,
                           minute |-> 30, second |-> 0, microsecond |-> 0])
    /\ fecha_str = Some(<<"1", "5", "/", "0", "1", "/", "2", "0", "2", "4">>) =>
         EsNone(fecha_res) /\ Len(fecha_diag) = 1

OrdenDeclarado == <<FMT_ISO, FMT_ISO_FRAC, FMT_ESPACIO, FMT_SOLO_FECHA>>

OrdenEnmendado == <<FMT_ISO, FMT_ESPACIO, FMT_ISO_FRAC, FMT_SOLO_FECHA>>

\* C10 as stated: the coercion returns None for an empty or missing string;
\* otherwise it tries ISO with seconds, ISO with fractional seconds,
\* space-separated and date-only, in that order, until one succeeds, and
\* returns that parse; if none succeeds it prints a diagnostic and returns
\* None.
C10_OrdenDeclarado ==
    /\ EsPrefijo(intentos, OrdenDeclarado)
    /\ fecha_pc = "fin" => ResultadoDeFecha

\* C10, amended: the same with the formats tried in the order ISO with
\* seconds, space-separated, ISO with fractional seconds, date-only.
C10_OrdenDelCodigo ==
    /\ EsPrefijo(intentos, OrdenEnmendado)
    /\ fecha_pc = "fin" =>
         /\ ResultadoDeFecha
         /\ fecha_res = _convertir_fecha(fecha_str).ret
         /\ fecha_diag = _convertir_fecha(fecha_str).impreso

C10_Testigo ==
    /\ fecha_pc = "fin"
    /\ intentos = <<FMT_ISO, FMT_ESPACIO, FMT_ISO_FRAC>>
    /\ ~EsNone(fecha_res)
    /\ Val(fecha_res).microsecond = 500000

----
\* Sequences of calls on parser instances (SpecInst).  CFDIParser.__init__
\* binds self.namespaces to the module's dict CFDI_NAMESPACES, so every
\* instance, old or new, reads the one table namespaces.

MaxLlamadas == 2

ArchivosDeEjemplo ==
    ArchivosBase
      \cup {[ArchivoCon(DocV4) EXCEPT !.existe = FALSE],
            [ArchivoCon(DocV3) EXCEPT !.bien_formado = FALSE]}

\* a v3.3 mapping that stores its namespace in self.namespaces['cfdi']
namespaces_tras_parsear_v3_escribe(tabla, a) ==
    IF a.existe /\ ~a.directorio /\ a.bien_formado /\ _detectar_version(a.raiz) = V33
    THEN [tabla EXCEPT !.cfdi = NS_CFDI3]
    ELSE tabla

\* the table after parsear_archivo(a): no statement of the class assigns to
\* self.namespaces or to an entry of it (_parsear_cfdi_v3 builds a local ns)
namespaces_tras_parsear(tabla, a) == tabla

OtrosSinInst ==
    UNCHANGED <<archivo, ediciones, fase, resultado, mensajes, excepcion, resumen,
                fecha_str, intentos, fecha_pc, fecha_res, fecha_diag,
                fs, escribible, antes, init_res,
                pendientes, entradas, listado, pos, cfdis, lote_pc>>

Llamada(via, a) ==
    /\ \E r \in {IF via = "parsear_cfdi" THEN parsear_cfdi(namespaces, a)
                 ELSE parsear_archivo(namespaces, a)} :
         historial' = Append(historial, [via |-> via, archivo |-> a, ret |-> r.ret,
                                         lanza |-> r.lanza])
    /\ namespaces' = namespaces_tras_parsear(namespaces, a)
    /\ OtrosSinInst

\* parsear_cfdi(a): a new CFDIParser and one call on it
LlamarParsearCfdi ==
    /\ Len(historial) < MaxLlamadas
    /\ \E a \in ArchivosDeEjemplo : Llamada("parsear_cfdi", a)

\* parser.parsear_archivo(a) on an instance constructed earlier
LlamarEnInstancia ==
    /\ Len(historial) < MaxLlamadas
    /\ \E a \in ArchivosDeEjemplo : Llamada("instancia", a)

InitInst ==
    /\ namespaces = CFDI_NAMESPACES
    /\ historial = <<>>
    /\ ReposoXml
    /\ ReposoFecha
    /\ ReposoDirs
    /\ ReposoLote

NextInst ==
    \/ LlamarParsearCfdi
    \/ LlamarEnInstancia

SpecInst == InitInst /\ [][NextInst]_vars

----
\* Properties of sequences of calls (SpecInst)

\* C9: whatever calls came before, on one instance or on new ones, a call
\* returns what the file alone determines (two calls on the same file return
\* equal results), lets no exception through, and the namespace table is the
\* one of construction.
C9_SinEstado ==
    /\ namespaces = CFDI_NAMESPACES
    /\ \A i \in DOMAIN historial :
         /\ historial[i].lanza = ""
         /\ historial[i].ret = ParseDe(historial[i].archivo)
         /\ \A j \in DOMAIN historial :
              historial[j].archivo = historial[i].archivo =>
                historial[j].ret = historial[i].ret

C9_Testigo ==
    /\ Len(historial) = 2
    /\ historial[1].archivo = ArchivoCon(DocV3)
    /\ historial[2].archivo = ArchivoCon(DocV4)
    /\ historial[1].via = "instancia"
    /\ historial[2].via = "instancia"
    /\ ~EsNone(historial[2].ret)
    /\ Val(historial[2].ret).emisor_rfc = Get(DocV4.hijos[1], "Rfc")
    /\ ~EsNone(Val(historial[2].ret).emisor_rfc)

----
\* mod_rutas: the directories and init_directorios (SpecDirs).  A path is the
\* sequence of its components below DIR_BASE; fs gives every modelled path
\* its kind, "ausente", "dir" or "archivo"; escribible holds the directories
\* in which the process may create entries.  A directory the process creates
\* is one it may write in (mode 0o777 under a umask that keeps the owner's
\* write bit).

DIR_BASE == <<>>

DIR_DATA == <<"data">>

DIR_PENDIENTES == <<"data", "facturas_pendientes">>

DIR_PROCESADAS == <<"data", "facturas_procesadas">>

\* paths init_directorios has no business with
OtrasRutas == {<<"utils">>, <<"data", "otro">>, <<"data", "facturas_pendientes", "a.xml">>}

RutasFs == {DIR_BASE, DIR_DATA, DIR_PENDIENTES, DIR_PROCESADAS} \cup OtrasRutas

Padre(p) == SubSeq(p, 1, Len(p) - 1)

\* os.mkdir(p): the errors in the order the system call finds them
os_mkdir(f, w, p) ==
    IF f[Padre(p)] = "ausente" THEN [fs |-> f, w |-> w, exc |-> "FileNotFoundError"]
    ELSE IF f[Padre(p)] = "archivo" THEN [fs |-> f, w |-> w, exc |-> "NotADirectoryError"]
    ELSE IF f[p] # "ausente" THEN [fs |-> f, w |-> w, exc |-> "FileExistsError"]
    ELSE IF Padre(p) \notin w THEN [fs |-> f, w |-> w, exc |-> "PermissionError"]
    ELSE [fs |-> [f EXCEPT ![p] = "dir"], w |-> w \cup {p}, exc |-> ""]

\* Path.mkdir(parents=False, exist_ok=True): an OSError is swallowed if p is
\* a directory
mkdir_sin_padres(f, w, p) ==
    Uno({IF r.exc \notin {"", "FileNotFoundError"} /\ f[p] = "dir"
         THEN [fs |-> f, w |-> w, exc |-> ""]
         ELSE r
         : r \in {os_mkdir(f, w, p)}})

RECURSIVE mkdir(_, _, _)
\* Path.mkdir(parents=True), exist_ok left False
mkdir_sin_exist_ok(f, w, p) ==
    Uno({IF r.exc = "FileNotFoundError"
         THEN Uno({IF rp.exc # "" THEN rp ELSE os_mkdir(rp.fs, rp.w, p)
                   : rp \in {mkdir(f, w, Padre(p))}})
         ELSE r
         : r \in {os_mkdir(f, w, p)}})

\* Path.mkdir(parents=True, exist_ok=True): on FileNotFoundError the parent
\* is made first and the directory then made without parents; any other
\* OSError is swallowed if p is a directory
mkdir(f, w, p) ==
    Uno({IF r.exc = "FileNotFoundError"
         THEN Uno({IF rp.exc # "" THEN rp ELSE mkdir_sin_padres(rp.fs, rp.w, p)
                   : rp \in {mkdir(f, w, Padre(p))}})
         ELSE IF r.exc # "" /\ f[p] = "dir"
         THEN [fs |-> f, w |-> w, exc |-> ""]
         ELSE r
         : r \in {os_mkdir(f, w, p)}})

\* the list directorios of init_directorios, in its order
directorios == <<DIR_PROCESADAS, DIR_PENDIENTES>>

\* init_directorios: the loop stops at the first mkdir that raises
init_directorios(f, w) ==
    Uno({IF r1.exc # "" THEN r1 ELSE mkdir(r1.fs, r1.w, directorios[2])
         : r1 \in {mkdir(f, w, directorios[1])}})

\* a file system: DIR_BASE is a directory (the module runs from it) and an
\* entry exists only in a directory
EsSistemaDeArchivos(f) ==
    /\ f[DIR_BASE] = "dir"
    /\ \A p \in RutasFs \ {DIR_BASE} : f[p] # "ausente" => f[Padre(p)] = "dir"

OtrosSinDirs ==
    UNCHANGED <<archivo, ediciones, fase, resultado, mensajes, excepcion, resumen,
                namespaces, historial, fecha_str, intentos, fecha_pc, fecha_res,
                fecha_diag, pendientes, entradas, listado, pos, cfdis, lote_pc>>

LlamarInitDirectorios ==
    /\ \E r \in {init_directorios(fs, escribible)} :
         /\ fs' = r.fs
         /\ escribible' = r.w
         /\ init_res' = IF r.exc = "" THEN "ok" ELSE r.exc
    /\ antes' = [fs |-> fs, w |-> escribible]
    /\ OtrosSinDirs

\* someone removes an empty directory between two calls
BorrarDirectorio ==
    /\ \E p \in {DIR_DATA, DIR_PENDIENTES, DIR_PROCESADAS} :
         /\ fs[p] = "dir"
         /\ \A q \in RutasFs : q # DIR_BASE /\ Padre(q) = p => fs[q] = "ausente"
         /\ fs' = [fs EXCEPT ![p] = "ausente"]
         /\ escribible' = escribible \ {p}
         /\ antes' = [fs |-> fs', w |-> escribible']
    /\ init_res' = ""
    /\ OtrosSinDirs

InitDirs ==
    /\ fs \in {f \in [RutasFs -> {"ausente", "dir", "archivo"}] : EsSistemaDeArchivos(f)}
    /\ escribible \in SUBSET {p \in {DIR_BASE, DIR_DATA} : fs[p] = "dir"}
    /\ antes = [fs |-> fs, w |-> escribible]
    /\ init_res = ""
    /\ namespaces = CFDI_NAMESPACES
    /\ ReposoXml
    /\ ReposoInst
    /\ ReposoFecha
    /\ ReposoLote

NextDirs ==
    \/ LlamarInitDirectorios
    \/ BorrarDirectorio

SpecDirs == InitDirs /\ [][NextDirs]_vars

----
\* Properties of init_directorios (SpecDirs)

\* creation is permitted for directory t: no file stands where a directory
\* is needed, and the directory in which the first missing one is to be
\* created is writable
CreacionPermitida(f, w, t) ==
    /\ f[DIR_DATA] # "archivo"
    /\ f[t] # "archivo"
    /\ f[DIR_DATA] = "ausente" => DIR_BASE \in w
    /\ f[DIR_DATA] = "dir" /\ f[t] = "ausente" => DIR_DATA \in w

\* C8: after a call from a state in which creation is permitted, both
\* directories and their parents exist; a call made when both exist succeeds
\* and changes nothing (so does a second call after a successful one); and a
\* call, failed or not, changes no path but the two directories and their
\* missing ancestors, which it creates.
C8_Idempotente ==
    init_res # "" =>
      /\ CreacionPermitida(antes.fs, antes.w, DIR_PENDIENTES)
           /\ CreacionPermitida(antes.fs, antes.w, DIR_PROCESADAS) =>
             /\ init_res = "ok"
             /\ fs[DIR_DATA] = "dir"
             /\ fs[DIR_PENDIENTES] = "dir"
             /\ fs[DIR_PROCESADAS] = "dir"
      /\ antes.fs[DIR_PENDIENTES] = "dir" /\ antes.fs[DIR_PROCESADAS] = "dir" =>
           init_res = "ok" /\ fs = antes.fs
      /\ init_res = "ok" =>
           init_directorios(fs, escribible) = [fs |-> fs, w |-> escribible, exc |-> ""]
      /\ \A p \in RutasFs :
           fs[p] # antes.fs[p] =>
             /\ p \in {DIR_DATA, DIR_PENDIENTES, DIR_PROCESADAS}
             /\ antes.fs[p] = "ausente"
             /\ fs[p] = "dir"

C8_Testigo ==
    /\ init_res = "ok"
    /\ antes.fs[DIR_DATA] = "ausente"
    /\ fs[DIR_DATA] = "dir"
    /\ fs[DIR_PENDIENTES] = "dir"
    /\ fs[DIR_PROCESADAS] = "dir"
    /\ fs[<<"utils">>] = "archivo"

----
\* procesar_cfdis_pendientes, one iteration of its loop at a time (SpecLote)

MaxArchivos == 2

NombresDeEntrada ==
    {<<"a", ".", "x", "m", "l">>, <<"b", ".", "x", "m", "l">>, <<".", "x", "m", "l">>, <<"c", ".", "t", "x", "t">>, <<"d", ".", "X", "M", "L">>}

\* what an entry of the directory may be when it is parsed: three documents
\* (the last of a version that is not supported), a file that is not
\* well-formed, a directory, and a file removed since it was listed
ContenidosDeEntrada ==
    {ArchivoCon(DocV4), ArchivoCon(DocV3), ArchivoCon(DocSinNs),
     [ArchivoCon(DocV4) EXCEPT !.bien_formado = FALSE],
     [ArchivoCon(DocV4) EXCEPT !.directorio = TRUE],
     [ArchivoCon(DocV3) EXCEPT !.existe = FALSE]}

\* the directories of at most MaxArchivos entries: each name is given a
\* file, which carries the name
Directorios ==
    UNION {[ns -> ContenidosDeEntrada] :
             ns \in {x \in SUBSET NombresDeEntrada : Cardinality(x) <= MaxArchivos}}

EntradaDe(d, n) == [d[n] EXCEPT !.nombre = n]

\* fnmatch of a name against "*.xml" (case-sensitive, as on POSIX)
CoincideXml(n) == Len(n) >= 4 /\ SubSeq(n, Len(n) - 3, Len(n)) = <<".", "x", "m", "l">>

\* the orders in which glob("*.xml") may yield the matching entries of d
Listados(d) ==
    LET ns == {n \in DOMAIN d : CoincideXml(n)}
    IN  {l \in [1..Cardinality(ns) -> ns] : \A i, j \in DOMAIN l : i # j => l[i] # l[j]}

\* cfdis.insert(0, cfdi_data) in place of append
agregar_al_frente(lista, cfdi_data) ==
    IF ~EsNone(cfdi_data) THEN <<Val(cfdi_data)>> \o lista ELSE lista

\* if cfdi_data: cfdis.append(cfdi_data).  A CFDIData defines neither
\* __bool__ nor __len__: every record is truthy.
agregar_si_hay(lista, cfdi_data) ==
    IF ~EsNone(cfdi_data) THEN Append(lista, Val(cfdi_data)) ELSE lista

OtrosSinLote ==
    UNCHANGED <<archivo, ediciones, fase, resultado, mensajes, excepcion, resumen,
                namespaces, historial, fecha_str, intentos, fecha_pc, fecha_res,
                fecha_diag, fs, escribible, antes, init_res>>

\* cfdis = []; if DIR_PENDIENTES.exists(): ... glob("*.xml").  The path
\* exists when it is a directory or a file; glob on a file yields nothing.
IniciarLote ==
    /\ lote_pc = "reposo"
    /\ cfdis' = <<>>
    /\ pos' = 0
    /\ IF pendientes = "ausente"
       THEN listado' = <<>> /\ lote_pc' = "fin"
       ELSE /\ listado' \in (IF pendientes = "dir" THEN Listados(entradas) ELSE {<<>>})
            /\ lote_pc' = "bucle"
    /\ UNCHANGED <<pendientes, entradas>>
    /\ OtrosSinLote

\* one iteration of the for loop
ProcesarArchivo ==
    /\ lote_pc = "bucle"
    /\ pos < Len(listado)
    /\ \E r \in {parsear_cfdi(namespaces, EntradaDe(entradas, listado[pos + 1]))} :
         IF r.lanza # ""
         THEN lote_pc' = "excepcion" /\ UNCHANGED <<cfdis, pos>>
         ELSE /\ cfdis' = agregar_si_hay(cfdis, r.ret)
              /\ pos' = pos + 1
              /\ lote_pc' = lote_pc
    /\ UNCHANGED <<pendientes, entradas, listado>>
    /\ OtrosSinLote

\* return cfdis
TerminarLote ==
    /\ lote_pc = "bucle"
    /\ pos = Len(listado)
    /\ lote_pc' = "fin"
    /\ UNCHANGED <<pendientes, entradas, listado, pos, cfdis>>
    /\ OtrosSinLote

InitLote ==
    /\ pendientes \in {"ausente", "dir", "archivo"}
    /\ entradas \in (IF pendientes = "dir" THEN Directorios ELSE {<<>>})
    /\ listado = <<>>
    /\ pos = 0
    /\ cfdis = <<>>
    /\ lote_pc = "reposo"
    /\ namespaces = CFDI_NAMESPACES
    /\ ReposoXml
    /\ ReposoInst
    /\ ReposoFecha
    /\ ReposoDirs

NextLote ==
    \/ IniciarLote
    \/ ProcesarArchivo
    \/ TerminarLote

SpecLote == InitLote /\ [][NextLote]_vars

----
\* Properties of the batch driver (SpecLote)

\* the records of the first k listed files that parse, in the order listed
RECURSIVE NoNulosHasta(_)
NoNulosHasta(k) ==
    IF k = 0 THEN <<>>
    ELSE Uno({IF EsNone(r) THEN NoNulosHasta(k - 1)
              ELSE Append(NoNulosHasta(k - 1), Val(r))
              : r \in {ParseDe(EntradaDe(entradas, listado[k]))}})

\* C7: no exception leaves the batch; the files handled are the *.xml
\* entries of the directory, each once; the list built so far holds exactly
\* the records of the files handled so far that parse, in the order listed
\* (a file that fails is skipped and the batch goes on); a directory that
\* does not exist gives the empty list.
C7_LoteEnOrden ==
    /\ lote_pc # "excepcion"
    /\ lote_pc \in {"bucle", "fin"} =>
         /\ cfdis = NoNulosHasta(pos)
         /\ pendientes = "dir" =>
              /\ {listado[i] : i \in DOMAIN listado}
                   = {n \in DOMAIN entradas : CoincideXml(n)}
              /\ \A i, j \in DOMAIN listado : listado[i] = listado[j] => i = j
         /\ \A i \in DOMAIN cfdis :
              \E k \in 1..pos : cfdis[i].archivo_origen = Some(listado[k])
    /\ lote_pc = "fin" =>
         /\ pos = Len(listado)
         /\ pendientes # "dir" => cfdis = <<>>

C7_Testigo ==
    /\ lote_pc = "fin"
    /\ Len(listado) = 2
    /\ EsNone(ParseDe(EntradaDe(entradas, listado[1])))
    /\ Len(cfdis) = 1
    /\ cfdis[1].archivo_origen = Some(listado[2])
    /\ DOMAIN entradas \ {listado[1], listado[2]} = {}

====
